---- MODULE Spec2Model ----
(***************************************************************************)
(* amqp-dead-letter: the interactive dead-letter triage tool.              *)
(* A model of run/work/process of dead_letter.go: one control location per *)
(* blocking call (dial, channel, select, Get, AskOne, Publish, Create,     *)
(* printDelivery, Close, Ack), the broker, the operator and the file       *)
(* system being the environment that decides each call's outcome.          *)
(***************************************************************************)
EXTENDS Integers, Sequences, FiniteSets, TLC

\* ------------------------------------------------------------------ bounds
\* the largest number of messages the dead-letter queue holds at start
MaxMsgs == 2

\* ------------------------------------------------------- program constants
actionRepublishQueue == 0
actionRepublishExchange == 1
actionSaveToFile == 2
actionDiscard == 3

errUsage == "usage: amqp-dead-letter <url> <queue>"
errMissingId == "cannot save to file without message_id"

\* ------------------------------------------------------------ value domain
\* A header value (amqp.Table holds interface{} values) and a rendered
\* property value: a tagged value, t = "string" | "int" | "ts".
Str(s) == [t |-> "string", s |-> s, n |-> 0]
IntV(n) == [t |-> "int", s |-> "", n |-> n]

\* time.Time: the zero value, or an instant given by its unix seconds
ZeroTime == [zero |-> TRUE, unix |-> 0]
TimeAt(u) == [zero |-> FALSE, unix |-> u]

EmptyTable == [k \in {} |-> Str("")]

KeyQueue == "x-first-death-queue"
KeyExchange == "x-first-death-exchange"

\* the x-first-death-queue header: absent, empty, a queue name, not a string
QueueHeaders ==
    { EmptyTable, KeyQueue :> Str(""), KeyQueue :> Str("orders.retry"),
      KeyQueue :> IntV(5) }

\* the x-first-death-exchange header, with or without an unrelated header
ExchangeHeaders ==
    { EmptyTable, KeyExchange :> IntV(7),
      (KeyExchange :> Str("orders")) @@ ("x-foo" :> Str("bar")) }

\* the header tables of the deliveries: every x-first-death-exchange header
\* with the queue header absent or naming a queue, every x-first-death-queue
\* header with the exchange header absent
HeaderTables ==
    { hq @@ hx : hq \in { EmptyTable, KeyQueue :> Str("orders.retry") }, hx \in ExchangeHeaders }
    \cup QueueHeaders

MessageIds == { "", "m1" }

\* content type and body: valid JSON, malformed JSON, plain text
Payloads ==
    { [ct |-> "application/json", body |-> "{\"a\":1}"],
      [ct |-> "application/json", body |-> "{bad"],
      [ct |-> "text/plain", body |-> "hello"] }

\* The part of an amqp.Delivery the broker's producer decided: some of the
\* properties are set, the others have their zero value.
Envelope(h, mid, p) ==
    [ Headers |-> h,
      ContentType |-> p.ct,
      ContentEncoding |-> "",
      DeliveryMode |-> 2,
      Priority |-> 4,
      CorrelationId |-> "corr-1",
      ReplyTo |-> "",
      Expiration |-> "",
      MessageId |-> mid,
      Timestamp |-> IF mid = "" THEN ZeroTime ELSE TimeAt(1700000000),
      Type |-> "order.created",
      UserId |-> "",
      AppId |-> "shop",
      RoutingKey |-> "orders.new",
      Body |-> p.body ]

\* a text body
PlainText == [ct |-> "text/plain", body |-> "hello"]

\* the header table of a message dead-lettered from a queue bound to an
\* exchange: both death headers and an unrelated one
DeadLetteredTable ==
    (KeyQueue :> Str("orders.retry")) @@ (KeyExchange :> Str("orders")) @@ ("x-foo" :> Str("bar"))

\* the messages in the dead-letter queue: without a message id every header
\* table with a text body; with a message id no header and a text body, or
\* both death headers and every payload
Envelopes ==
    { Envelope(h, mid, PlainText) : h \in HeaderTables, mid \in MessageIds \ {"m1"} }
    \cup { Envelope(EmptyTable, mid, PlainText) : mid \in MessageIds \ {""} }
    \cup { Envelope(DeadLetteredTable, mid, p) : mid \in MessageIds \ {""}, p \in Payloads }

\* what the broker adds on delivery
Delivery(env, tag, count) ==
    env @@ [DeliveryTag |-> tag, MessageCount |-> count, Redelivered |-> FALSE]

NoDelivery == [DeliveryTag |-> 0]

\* os.Args as the shell can pass them
ArgLists ==
    { <<"amqp-dead-letter">>,
      <<"amqp-dead-letter", "amqp://host/vhost">>,
      <<"amqp-dead-letter", "", "DL.queue">>,
      <<"amqp-dead-letter", "amqp://host/vhost", "">>,
      <<"amqp-dead-letter", "amqp://host/vhost", "DL.queue">>,
      <<"amqp-dead-letter", "amqp://host/vhost", "DL.queue", "extra">> }

\* ---------------------------------------------------------- pure functions
\* getHeader as it would be if a value that is not a string were rendered
\* as text instead of giving ""
getHeader_Stringify(table, key) ==
    IF key \in DOMAIN table
    THEN IF table[key].t = "string" THEN table[key].s ELSE ToString(table[key].n)
    ELSE ""

\* getHeader: the string value of a header, "" when absent or not a string
getHeader(table, key) ==
    IF key \in DOMAIN table
    THEN IF table[key].t = "string" THEN table[key].s ELSE ""
    ELSE ""

\* filename: fmt.Sprintf("dead-letter-%s.txt", del.MessageId)
filename(del) == <<"dead-letter-", del.MessageId, ".txt">>

\* publishing as it would be if the copy were stamped with a fresh time
publishing_Restamped(del) ==
    [ Headers |-> del.Headers,
      ContentType |-> del.ContentType,
      ContentEncoding |-> del.ContentEncoding,
      DeliveryMode |-> del.DeliveryMode,
      Priority |-> del.Priority,
      CorrelationId |-> del.CorrelationId,
      ReplyTo |-> del.ReplyTo,
      Expiration |-> del.Expiration,
      MessageId |-> del.MessageId,
      Timestamp |-> TimeAt(1800000000),
      Type |-> del.Type,
      UserId |-> del.UserId,
      AppId |-> del.AppId,
      Body |-> del.Body ]

\* publishing: the copy of the delivery that is republished
publishing(del) ==
    [ Headers |-> del.Headers,
      ContentType |-> del.ContentType,
      ContentEncoding |-> del.ContentEncoding,
      DeliveryMode |-> del.DeliveryMode,
      Priority |-> del.Priority,
      CorrelationId |-> del.CorrelationId,
      ReplyTo |-> del.ReplyTo,
      Expiration |-> del.Expiration,
      MessageId |-> del.MessageId,
      Timestamp |-> del.Timestamp,
      Type |-> del.Type,
      UserId |-> del.UserId,
      AppId |-> del.AppId,
      Body |-> del.Body ]

\* time.Format(time.RFC3339) of the instants the model uses
RFC3339(u) == IF u = 1700000000 THEN "2023-11-14T22:13:20Z" ELSE "1970-01-01T00:00:00Z"

\* timestamp: "" for the zero time, else "<unix> (<RFC3339>)"
timestamp(del) ==
    IF del.Timestamp.zero THEN Str("")
    ELSE [t |-> "ts", s |-> RFC3339(del.Timestamp.unix), n |-> del.Timestamp.unix]

\* one line of output, and one row of a printed table
Line(text) == [k |-> "line", name |-> text, value |-> Str("")]
Row(name, value) == [k |-> "row", name |-> name, value |-> value]

\* the byte order of the property names and header keys (Go's string <)
StringRank ==
    [ app_id |-> 1, content_encoding |-> 2, content_type |-> 3,
      correlation_id |-> 4, expiration |-> 5, message_id |-> 6,
      reply_to |-> 7, routing_key |-> 8, timestamp |-> 9, type |-> 10,
      user_id |-> 11 ]
    @@ (KeyExchange :> 12) @@ (KeyQueue :> 13) @@ ("x-foo" :> 14)

\* sort.Slice(rows, func(i, j) bool { return rows[i].Name < rows[j].Name }):
\* the names of the rows are distinct (fixed property names, keys of a map),
\* so each row goes to the place given by the number of rows below it
SortRows(rows) ==
    IF rows = <<>> THEN <<>>
    ELSE CHOOSE sorted \in
            { [ i \in 1..Len(rs) |->
                  rs[CHOOSE j \in DOMAIN rs :
                        Cardinality({ k \in DOMAIN rs :
                                        StringRank[rs[k].name] < StringRank[rs[j].name] }) = i - 1] ]
              : rs \in {rows} } : TRUE

\* the result of a print function: what reached the writer, and the error
Printed(out, err) == [out |-> out, err |-> err]

\* printProperties; okLine: the Fprintln succeeds, okTable: the writes of
\* tableprinter.Print succeed (its result is discarded)
printProperties(del, okLine, okTable) ==
    IF ~okLine THEN Printed(<<>>, "write")
    ELSE LET props == << Row("message_id", Str(del.MessageId)),
                         Row("type", Str(del.Type)),
                         Row("routing_key", Str(del.RoutingKey)),
                         Row("timestamp", timestamp(del)),
                         Row("content_type", Str(del.ContentType)),
                         Row("content_encoding", Str(del.ContentEncoding)),
                         Row("correlation_id", Str(del.CorrelationId)),
                         Row("reply_to", Str(del.ReplyTo)),
                         Row("expiration", Str(del.Expiration)),
                         Row("user_id", Str(del.UserId)),
                         Row("app_id", Str(del.AppId)) >>
             IsSet(p) == p.value # Str("")
             setProps == SortRows(SelectSeq(props, IsSet))
         IN Printed(<<Line("PROPERTIES")>> \o (IF okTable THEN setProps ELSE <<>>), "")

\* the entries of a map in the order one range loop visits them
RECURSIVE RangeOver(_, _)
RangeOver(table, keys) ==
    IF keys = {} THEN <<>>
    ELSE LET k == CHOOSE x \in keys : TRUE
         IN <<Row(k, table[k])>> \o RangeOver(table, keys \ {k})

\* printHeaders
printHeaders(del, okLine, okTable) ==
    IF ~okLine THEN Printed(<<>>, "write")
    ELSE LET headers == SortRows(RangeOver(del.Headers, DOMAIN del.Headers))
         IN Printed(<<Line("HEADERS")>> \o (IF okTable THEN headers ELSE <<>>), "")

\* json.Unmarshal on the bodies the model uses
jsonUnmarshal(body) ==
    IF body = "{\"a\":1}" THEN [ok |-> TRUE, value |-> [a |-> 1]]
    ELSE [ok |-> FALSE, value |-> [a |-> 0]]

\* json.Encoder with SetIndent("", "  ")
jsonEncodeIndent(value) ==
    IF value = [a |-> 1] THEN "{\n  \"a\": 1\n}\n" ELSE "null\n"

\* printPayload as it would be if the error of json.Unmarshal were returned
printPayload_ReportsParseError(del, okLine, okBody) ==
    IF ~okLine THEN Printed(<<>>, "write")
    ELSE IF del.ContentType = "application/json"
    THEN LET parsed == jsonUnmarshal(del.Body)
         IN IF parsed.ok
            THEN IF okBody
                 THEN Printed(<<Line("PAYLOAD"), Line(jsonEncodeIndent(parsed.value))>>, "")
                 ELSE Printed(<<Line("PAYLOAD")>>, "write")
            ELSE Printed(<<Line("PAYLOAD")>>, "json")
    ELSE IF okBody
         THEN Printed(<<Line("PAYLOAD"), Line(del.Body)>>, "")
         ELSE Printed(<<Line("PAYLOAD")>>, "write")

\* printPayload; okLine: the Fprintln of the title succeeds, okBody: the
\* write of the payload itself succeeds
printPayload(del, okLine, okBody) ==
    IF ~okLine THEN Printed(<<>>, "write")
    ELSE IF del.ContentType = "application/json"
    THEN LET parsed == jsonUnmarshal(del.Body)
         IN IF parsed.ok
            THEN IF okBody
                 THEN Printed(<<Line("PAYLOAD"), Line(jsonEncodeIndent(parsed.value))>>, "")
                 ELSE Printed(<<Line("PAYLOAD")>>, "write")
            ELSE Printed(<<Line("PAYLOAD")>>, "")
    ELSE IF okBody
         THEN Printed(<<Line("PAYLOAD"), Line(del.Body)>>, "")
         ELSE Printed(<<Line("PAYLOAD")>>, "write")

\* the outcome of each write of one printDelivery call
WriteOutcomes == [1..6 -> BOOLEAN]
AllWritesOk == [i \in 1..6 |-> TRUE]

\* printDelivery: properties, headers, payload, stopping at the first error
printDelivery(del, w) ==
    LET p == printProperties(del, w[1], w[2])
    IN IF p.err # "" THEN p
       ELSE LET h == printHeaders(del, w[3], w[4])
            IN IF h.err # "" THEN Printed(p.out \o h.out, h.err)
               ELSE LET b == printPayload(del, w[5], w[6])
                    IN Printed(p.out \o h.out \o b.out, b.err)

\* the label of an option: fmt.Sprintf(text + " %s", arg)
Label(text, arg) == [text |-> text, arg |-> arg]

\* Offers as it would be if save to file were offered without a message id
Offers_AlwaysSave(del) ==
    LET exchange == getHeader(del.Headers, KeyExchange)
        queue == getHeader(del.Headers, KeyQueue)
        s0 == [options |-> <<>>, actions |-> <<>>]
        s1 == IF queue # ""
              THEN [options |-> Append(s0.options, Label("republish to queue", <<queue>>)),
                    actions |-> Append(s0.actions, actionRepublishQueue)]
              ELSE s0
        s2 == IF exchange # ""
              THEN [options |-> Append(s1.options, Label("republish to exchange", <<exchange>>)),
                    actions |-> Append(s1.actions, actionRepublishExchange)]
              ELSE s1
        s3 == [options |-> Append(s2.options, Label("save to file", filename(del))),
               actions |-> Append(s2.actions, actionSaveToFile)]
    IN [options |-> Append(s3.options, Label("discard", <<>>)),
        actions |-> Append(s3.actions, actionDiscard)]

\* Offers as it would be if the exchange branch appended the queue code
Offers_Misaligned(del) ==
    LET exchange == getHeader(del.Headers, KeyExchange)
        queue == getHeader(del.Headers, KeyQueue)
        s0 == [options |-> <<>>, actions |-> <<>>]
        s1 == IF queue # ""
              THEN [options |-> Append(s0.options, Label("republish to queue", <<queue>>)),
                    actions |-> Append(s0.actions, actionRepublishQueue)]
              ELSE s0
        s2 == IF exchange # ""
              THEN [options |-> Append(s1.options, Label("republish to exchange", <<exchange>>)),
                    actions |-> Append(s1.actions, actionRepublishQueue)]
              ELSE s1
        s3 == IF del.MessageId # ""
              THEN [options |-> Append(s2.options, Label("save to file", filename(del))),
                    actions |-> Append(s2.actions, actionSaveToFile)]
              ELSE s2
    IN [options |-> Append(s3.options, Label("discard", <<>>)),
        actions |-> Append(s3.actions, actionDiscard)]

\* process, the two parallel lists built before the prompt: the option
\* labels and the action codes
Offers(del) ==
    LET exchange == getHeader(del.Headers, KeyExchange)
        queue == getHeader(del.Headers, KeyQueue)
        s0 == [options |-> <<>>, actions |-> <<>>]
        s1 == IF queue # ""
              THEN [options |-> Append(s0.options, Label("republish to queue", <<queue>>)),
                    actions |-> Append(s0.actions, actionRepublishQueue)]
              ELSE s0
        s2 == IF exchange # ""
              THEN [options |-> Append(s1.options, Label("republish to exchange", <<exchange>>)),
                    actions |-> Append(s1.actions, actionRepublishExchange)]
              ELSE s1
        s3 == IF del.MessageId # ""
              THEN [options |-> Append(s2.options, Label("save to file", filename(del))),
                    actions |-> Append(s2.actions, actionSaveToFile)]
              ELSE s2
    IN [options |-> Append(s3.options, Label("discard", <<>>)),
        actions |-> Append(s3.actions, actionDiscard)]

\* ------------------------------------------------------------------- state
VARIABLES
    args,       \* os.Args
    pc,         \* the call the program is at, "stopped" once run has returned
    result,     \* what run returned: "" while running, "ok" for nil, else the error
    cancelled,  \* ctx.Done() is closed
    qlen,       \* messages ready in the dead-letter queue (broker side)
    unacked,    \* delivery tags the broker has delivered and not seen acknowledged
    fetched,    \* deliveries obtained from ch.Get so far (the last delivery tag)
    gets,       \* ch.Get calls issued so far
    del,        \* the delivery in process, NoDelivery before the first
    screen,     \* what printDelivery wrote to os.Stdout for del
    options,    \* process: the labels shown
    actions,    \* process: the action codes, parallel to options
    answer,     \* the index AskOne stored, -1 before it returns
    prompts,    \* AskOne calls for del
    pub,        \* Publish calls for del, each [exchange, key, msg, ok]
    fopen,      \* the file process has open, <<>> when none
    files,      \* the file system: file name -> content
    writes,     \* the file operations done for del: "create", "print", "close"
    replaced,   \* what os.Create found under the file name of del, "" before it
    acks        \* Ack calls for del, each [tag, multiple, ok]

vars == <<args, pc, result, cancelled, qlen, unacked, fetched, gets, del, screen,
          options, actions, answer, prompts, pub, fopen, files, writes, replaced, acks>>

broker == <<qlen, unacked, fetched, gets>>
offer == <<screen, options, actions>>
effects == <<prompts, pub, fopen, files, writes, replaced, acks>>

NoFiles == [n \in {} |-> <<>>]

\* the working directory at start: empty, or holding a file of an earlier run
InitialFiles == { NoFiles, <<"dead-letter-", "m1", ".txt">> :> <<Line("earlier run")>> }

Init ==
    /\ args \in ArgLists
    /\ pc = "run"
    /\ result = ""
    /\ cancelled = FALSE
    /\ qlen \in 0..MaxMsgs
    /\ unacked = {}
    /\ fetched = 0
    /\ gets = 0
    /\ del = NoDelivery
    /\ screen = <<>>
    /\ options = <<>>
    /\ actions = <<>>
    /\ answer = -1
    /\ prompts = 0
    /\ pub = <<>>
    /\ fopen = <<>>
    /\ files \in InitialFiles
    /\ writes = <<>>
    /\ replaced = ""
    /\ acks = <<>>

\* return err / return nil from run
Return(r) == pc' = "stopped" /\ result' = r

\* main: the exit status for what run returned (os.Exit(1) on an error)
ExitStatus(r) == IF r # "ok" THEN 1 ELSE 0

\* ----------------------------------------------------------------- actions
\* Run as it would be without the check of the queue name
Run_NoQueueCheck ==
    /\ pc = "run"
    /\ IF Len(args) # 3 THEN Return(errUsage)
       ELSE IF args[2] = "" THEN Return(errUsage)
       ELSE pc' = "dial" /\ result' = result
    /\ UNCHANGED <<args, cancelled, broker, del, offer, answer, effects>>

\* run, the argument checks
Run ==
    /\ pc = "run"
    /\ IF Len(args) # 3 THEN Return(errUsage)
       ELSE IF args[2] = "" THEN Return(errUsage)
       ELSE IF args[3] = "" THEN Return(errUsage)
       ELSE pc' = "dial" /\ result' = result
    /\ UNCHANGED <<args, cancelled, broker, del, offer, answer, effects>>

\* run, amqp.Dial(url)
Dial ==
    /\ pc = "dial"
    /\ \E ok \in BOOLEAN :
          IF ok THEN pc' = "channel" /\ result' = result ELSE Return("dial")
    /\ UNCHANGED <<args, cancelled, broker, del, offer, answer, effects>>

\* run, conn.Channel() and signal.NotifyContext, then work is entered
Channel ==
    /\ pc = "channel"
    /\ \E ok \in BOOLEAN :
          IF ok THEN pc' = "select" /\ result' = result ELSE Return("channel")
    /\ UNCHANGED <<args, cancelled, broker, del, offer, answer, effects>>

\* the places of work and process, where the context exists
LoopPcs ==
    { "select", "get", "process", "ask", "publishQueue", "publishExchange",
      "create", "print", "close", "ack" }

\* os.Interrupt arrives: the context is cancelled
Cancel ==
    /\ pc \in LoopPcs
    /\ ~cancelled
    /\ cancelled' = TRUE
    /\ UNCHANGED <<args, pc, result, broker, del, offer, answer, effects>>

\* Select as it would be if the Done case were not looked at
Select_IgnoreDone ==
    /\ pc = "select"
    /\ pc' = "get" /\ result' = result
    /\ UNCHANGED <<args, cancelled, broker, del, offer, answer, effects>>

\* work, the select at the top of each iteration: the Done case is taken
\* when the context is cancelled, the default case otherwise
Select ==
    /\ pc = "select"
    /\ IF cancelled THEN Return("ok") ELSE pc' = "get" /\ result' = result
    /\ UNCHANGED <<args, cancelled, broker, del, offer, answer, effects>>

\* Get as it would be if work went on with the next iteration when no
\* message is left
Get_EmptyContinues ==
    /\ pc = "get"
    /\ gets' = gets + 1
    /\ \/ /\ Return("get")
          /\ UNCHANGED <<qlen, unacked, fetched, del, offer, answer, effects>>
       \/ /\ qlen = 0
          /\ pc' = "select" /\ result' = result
          /\ UNCHANGED <<qlen, unacked, fetched, del, offer, answer, effects>>
       \/ /\ qlen > 0
          /\ \E env \in Envelopes : del' = Delivery(env, fetched + 1, qlen - 1)
          /\ qlen' = qlen - 1
          /\ fetched' = fetched + 1
          /\ unacked' = unacked \cup {fetched + 1}
          /\ screen' = <<>> /\ options' = <<>> /\ actions' = <<>>
          /\ answer' = -1
          /\ prompts' = 0 /\ pub' = <<>> /\ writes' = <<>> /\ acks' = <<>>
          /\ pc' = "process" /\ result' = result
          /\ replaced' = ""
          /\ UNCHANGED <<fopen, files>>
    /\ UNCHANGED <<args, cancelled>>

\* work, ch.Get(queue, false): an error, no message, or one delivery
Get ==
    /\ pc = "get"
    /\ gets' = gets + 1
    /\ \/ /\ Return("get")
          /\ UNCHANGED <<qlen, unacked, fetched, del, offer, answer, effects>>
       \/ /\ qlen = 0
          /\ Return("ok")
          /\ UNCHANGED <<qlen, unacked, fetched, del, offer, answer, effects>>
       \/ /\ qlen > 0
          /\ \E env \in Envelopes : del' = Delivery(env, fetched + 1, qlen - 1)
          /\ qlen' = qlen - 1
          /\ fetched' = fetched + 1
          /\ unacked' = unacked \cup {fetched + 1}
          /\ screen' = <<>> /\ options' = <<>> /\ actions' = <<>>
          /\ answer' = -1
          /\ prompts' = 0 /\ pub' = <<>> /\ writes' = <<>> /\ acks' = <<>>
          /\ pc' = "process" /\ result' = result
          /\ replaced' = ""
          /\ UNCHANGED <<fopen, files>>
    /\ UNCHANGED <<args, cancelled>>

\* process, up to the prompt: the delivery is shown on os.Stdout, where any
\* write can fail (the result of that printDelivery is discarded, so process
\* goes on with what reached the screen), and the options are built
Process ==
    /\ pc = "process"
    /\ \E w \in WriteOutcomes : screen' = printDelivery(del, w).out
    /\ options' = Offers(del).options
    /\ actions' = Offers(del).actions
    /\ pc' = "ask"
    /\ UNCHANGED <<args, result, cancelled, broker, del, answer, effects>>

\* Switch as it would be if the discard case ran the save to file case
Switch_DiscardSaves(code) ==
    IF code = actionRepublishQueue THEN "publishQueue"
    ELSE IF code = actionRepublishExchange THEN "publishExchange"
    ELSE IF code = actionSaveToFile THEN "create"
    ELSE IF code = actionDiscard THEN "create"
    ELSE "select"

\* Switch as it would be if the discard case returned nil without Ack
Switch_DiscardNoAck(code) ==
    IF code = actionRepublishQueue THEN "publishQueue"
    ELSE IF code = actionRepublishExchange THEN "publishExchange"
    ELSE IF code = actionSaveToFile THEN "create"
    ELSE "select"

\* process, switch actions[answer]: the place of the selected case
Switch(code) ==
    IF code = actionRepublishQueue THEN "publishQueue"
    ELSE IF code = actionRepublishExchange THEN "publishExchange"
    ELSE IF code = actionSaveToFile THEN "create"
    ELSE IF code = actionDiscard THEN "ack"
    ELSE "select"

\* AskOne as it would be if its error were dropped: the switch runs on the
\* zero value of answer, the first option
AskOne_ErrorIgnored ==
    /\ pc = "ask"
    /\ prompts' = prompts + 1
    /\ \/ /\ pc' = Switch(actions[1])
          /\ result' = result
          /\ UNCHANGED answer
       \/ /\ \E a \in 0..(Len(options) - 1) :
                /\ answer' = a
                /\ pc' = Switch(actions[a + 1])
          /\ result' = result
    /\ UNCHANGED <<args, cancelled, broker, del, offer, pub, fopen, files, replaced, writes, acks>>

\* process, survey.AskOne: an error, or the index of the selected option
AskOne ==
    /\ pc = "ask"
    /\ prompts' = prompts + 1
    /\ \/ /\ Return("prompt")
          /\ UNCHANGED answer
       \/ /\ \E a \in 0..(Len(options) - 1) :
                /\ answer' = a
                /\ pc' = Switch(actions[a + 1])
          /\ result' = result
    /\ UNCHANGED <<args, cancelled, broker, del, offer, pub, fopen, files, replaced, writes, acks>>

\* one ch.Publish call as the broker sees it
Publication(exchange, key, msg, ok) ==
    [exchange |-> exchange, key |-> key, mandatory |-> FALSE, immediate |-> FALSE,
     msg |-> msg, ok |-> ok]

\* RepublishQueue as it would be if it returned nil after the publish
\* without acknowledging
RepublishQueue_NoAck ==
    /\ pc = "publishQueue"
    /\ \E ok \in BOOLEAN :
          /\ pub' = Append(pub, Publication("", getHeader(del.Headers, KeyQueue), publishing(del), ok))
          /\ IF ok THEN pc' = "select" /\ result' = result ELSE Return("publish")
    /\ UNCHANGED <<args, cancelled, broker, del, offer, answer, prompts, fopen, files, replaced, writes, acks>>

\* process, case actionRepublishQueue: ch.Publish("", queue, ...)
RepublishQueue ==
    /\ pc = "publishQueue"
    /\ \E ok \in BOOLEAN :
          /\ pub' = Append(pub, Publication("", getHeader(del.Headers, KeyQueue), publishing(del), ok))
          /\ IF ok THEN pc' = "ack" /\ result' = result ELSE Return("publish")
    /\ UNCHANGED <<args, cancelled, broker, del, offer, answer, prompts, fopen, files, replaced, writes, acks>>

\* RepublishExchange as it would be if the error of Publish were dropped
RepublishExchange_AckAnyway ==
    /\ pc = "publishExchange"
    /\ \E ok \in BOOLEAN :
          /\ pub' = Append(pub, Publication(getHeader(del.Headers, KeyExchange), del.RoutingKey, publishing(del), ok))
          /\ pc' = "ack" /\ result' = result
    /\ UNCHANGED <<args, cancelled, broker, del, offer, answer, prompts, fopen, files, replaced, writes, acks>>

\* RepublishExchange as it would be if the death queue were the routing key
RepublishExchange_DeathKey ==
    /\ pc = "publishExchange"
    /\ \E ok \in BOOLEAN :
          /\ pub' = Append(pub, Publication(getHeader(del.Headers, KeyExchange), getHeader(del.Headers, KeyQueue), publishing(del), ok))
          /\ IF ok THEN pc' = "ack" /\ result' = result ELSE Return("publish")
    /\ UNCHANGED <<args, cancelled, broker, del, offer, answer, prompts, fopen, files, replaced, writes, acks>>

\* process, case actionRepublishExchange: ch.Publish(exchange, del.RoutingKey, ...)
RepublishExchange ==
    /\ pc = "publishExchange"
    /\ \E ok \in BOOLEAN :
          /\ pub' = Append(pub, Publication(getHeader(del.Headers, KeyExchange), del.RoutingKey, publishing(del), ok))
          /\ IF ok THEN pc' = "ack" /\ result' = result ELSE Return("publish")
    /\ UNCHANGED <<args, cancelled, broker, del, offer, answer, prompts, fopen, files, replaced, writes, acks>>

\* what is under a file name: "absent", "empty", or the first line's text
FileState(name) ==
    IF name \notin DOMAIN files THEN "absent"
    ELSE IF files[name] = <<>> THEN "empty"
    ELSE files[name][1].name

\* SaveCreate as it would be if the file were opened for appending
SaveCreate_Append ==
    /\ pc = "create"
    /\ IF del.MessageId = ""
       THEN Return(errMissingId) /\ UNCHANGED <<fopen, files, replaced, writes>>
       ELSE \E ok \in BOOLEAN :
               /\ writes' = Append(writes, "create")
               /\ IF ok
                  THEN /\ files' = files @@ (filename(del) :> <<>>)
                       /\ replaced' = FileState(filename(del))
                       /\ fopen' = filename(del)
                       /\ pc' = "print" /\ result' = result
                  ELSE Return("create") /\ UNCHANGED <<fopen, files, replaced>>
    /\ UNCHANGED <<args, cancelled, broker, del, offer, answer, prompts, pub, acks>>

\* process, case actionSaveToFile: the message id check and os.Create,
\* which truncates an existing file
SaveCreate ==
    /\ pc = "create"
    /\ IF del.MessageId = ""
       THEN Return(errMissingId) /\ UNCHANGED <<fopen, files, replaced, writes>>
       ELSE \E ok \in BOOLEAN :
               /\ writes' = Append(writes, "create")
               /\ IF ok
                  THEN /\ files' = (filename(del) :> <<>>) @@ files
                       /\ replaced' = FileState(filename(del))
                       /\ fopen' = filename(del)
                       /\ pc' = "print" /\ result' = result
                  ELSE Return("create") /\ UNCHANGED <<fopen, files, replaced>>
    /\ UNCHANGED <<args, cancelled, broker, del, offer, answer, prompts, pub, acks>>

\* process, printDelivery(f, del) into the created file
SavePrint ==
    /\ pc = "print"
    /\ \E w \in WriteOutcomes :
          LET r == printDelivery(del, w)
          IN /\ files' = [files EXCEPT ![fopen] = @ \o r.out]
             /\ IF r.err # "" THEN Return(r.err) ELSE pc' = "close" /\ result' = result
    /\ writes' = Append(writes, "print")
    /\ UNCHANGED <<args, cancelled, broker, del, offer, answer, prompts, pub, fopen, replaced, acks>>

\* process, f.Close()
SaveClose ==
    /\ pc = "close"
    /\ writes' = Append(writes, "close")
    /\ \E ok \in BOOLEAN :
          IF ok THEN pc' = "ack" /\ result' = result /\ fopen' = <<>>
          ELSE Return("close") /\ fopen' = fopen
    /\ UNCHANGED <<args, cancelled, broker, del, offer, answer, prompts, pub, files, replaced, acks>>

\* Ack as it would be if the delivery were rejected with requeue instead
Ack_Requeue ==
    /\ pc = "ack"
    /\ \E ok \in BOOLEAN :
          /\ acks' = Append(acks, [tag |-> del.DeliveryTag, multiple |-> FALSE, ok |-> ok])
          /\ IF ok
             THEN /\ unacked' = unacked \ {del.DeliveryTag}
                  /\ qlen' = qlen + 1
                  /\ pc' = "select" /\ result' = result
             ELSE /\ unacked' = unacked
                  /\ qlen' = qlen
                  /\ Return("ack")
    /\ UNCHANGED <<args, cancelled, fetched, gets, del, offer, answer, prompts, pub, fopen, files, replaced, writes>>

\* Ack as it would be if work went on with the next iteration on an error
Ack_ContinueOnError ==
    /\ pc = "ack"
    /\ \E ok \in BOOLEAN :
          /\ acks' = Append(acks, [tag |-> del.DeliveryTag, multiple |-> FALSE, ok |-> ok])
          /\ unacked' = IF ok THEN unacked \ {del.DeliveryTag} ELSE unacked
          /\ pc' = "select" /\ result' = result
    /\ UNCHANGED <<args, cancelled, qlen, fetched, gets, del, offer, answer, prompts, pub, fopen, files, replaced, writes>>

\* Ack as it would be if process looked at the context before acknowledging
Ack_CheckCtx ==
    /\ pc = "ack"
    /\ IF cancelled
       THEN Return("ok") /\ UNCHANGED <<acks, unacked>>
       ELSE \E ok \in BOOLEAN :
               /\ acks' = Append(acks, [tag |-> del.DeliveryTag, multiple |-> FALSE, ok |-> ok])
               /\ IF ok
                  THEN /\ unacked' = unacked \ {del.DeliveryTag}
                       /\ pc' = "select" /\ result' = result
                  ELSE /\ unacked' = unacked
                       /\ Return("ack")
    /\ UNCHANGED <<args, cancelled, qlen, fetched, gets, del, offer, answer, prompts, pub, fopen, files, replaced, writes>>

\* process, return del.Acknowledger.Ack(del.DeliveryTag, false): the last
\* statement of every case; nil continues the loop of work
Ack ==
    /\ pc = "ack"
    /\ \E ok \in BOOLEAN :
          /\ acks' = Append(acks, [tag |-> del.DeliveryTag, multiple |-> FALSE, ok |-> ok])
          /\ IF ok
             THEN /\ unacked' = unacked \ {del.DeliveryTag}
                  /\ pc' = "select" /\ result' = result
             ELSE /\ unacked' = unacked
                  /\ Return("ack")
    /\ UNCHANGED <<args, cancelled, qlen, fetched, gets, del, offer, answer, prompts, pub, fopen, files, replaced, writes>>

Next ==
    \/ Run
    \/ Dial
    \/ Channel
    \/ Cancel
    \/ Select
    \/ Get
    \/ Process
    \/ AskOne
    \/ RepublishQueue
    \/ RepublishExchange
    \/ SaveCreate
    \/ SavePrint
    \/ SaveClose
    \/ Ack

Spec == Init /\ [][Next]_vars

\* the program takes its next step whenever it has one: the broker and the
\* file system return from every call, the operator answers every prompt
FairSpec == Spec /\ WF_vars(Next)

TypeOK ==
    /\ pc \in LoopPcs \cup {"run", "dial", "channel", "stopped"}
    /\ cancelled \in BOOLEAN
    /\ qlen \in 0..MaxMsgs
    /\ fetched \in 0..MaxMsgs
    /\ (result = "") = (pc # "stopped")
    /\ fetched > 0 => del.MessageId \in MessageIds

\* ------------------------------------------------------------- properties
\* the action code the operator selected for del, -1 before the selection
Chosen == IF answer >= 0 THEN actions[answer + 1] ELSE -1

\* process has returned nil for del: its disposition executed successfully
Dispositioned ==
    /\ fetched > 0
    /\ answer >= 0
    /\ \/ pc \in {"select", "get"}
       \/ pc = "stopped" /\ result \in {"ok", "get"}

\* the places inside process
ProcessPcs == LoopPcs \ {"select", "get"}

\* C1: every successfully executed disposition (republish to queue,
\* republish to exchange, save to file, discard) has acknowledged the
\* delivery's own tag exactly once, and on no path, successful or failing,
\* is a delivery acknowledged more than once.
C1_AckExactlyOnce ==
    /\ Len(acks) <= 1
    /\ \A i \in DOMAIN acks : acks[i].tag = del.DeliveryTag /\ ~acks[i].multiple
    /\ Dispositioned => /\ Len(acks) = 1
                        /\ acks[1].ok
                        /\ Chosen \in {actionRepublishQueue, actionRepublishExchange,
                                       actionSaveToFile, actionDiscard}

C1_Witness ==
    /\ Dispositioned
    /\ Chosen = actionSaveToFile
    /\ fetched = 2
    /\ Len(acks) = 1

\* C2: at most one fetched delivery is unacknowledged, and a fetch is only
\* issued when no fetched delivery is unacknowledged.
C2_OneInFlight ==
    /\ Cardinality(unacked) <= 1
    /\ unacked \subseteq {del.DeliveryTag}
    /\ pc = "get" => unacked = {}

C2_Witness == pc = "get" /\ fetched = 1 /\ gets = 1 /\ unacked = {}

\* C3: for both republish dispositions the acknowledgement is issued only
\* after the publish succeeded; a failed publish is not retried, is followed
\* by no acknowledgement, and stops the run with an error while the delivery
\* stays unacknowledged on the broker.
C3_AckAfterPublish ==
    Chosen \in {actionRepublishQueue, actionRepublishExchange} =>
        /\ Len(pub) <= 1
        /\ acks # <<>> => Len(pub) = 1 /\ pub[1].ok
        /\ (Len(pub) = 1 /\ ~pub[1].ok) =>
              /\ pc = "stopped"
              /\ result \notin {"", "ok"}
              /\ acks = <<>>
              /\ del.DeliveryTag \in unacked

C3_Witness ==
    /\ Chosen = actionRepublishExchange
    /\ Len(pub) = 1 /\ ~pub[1].ok
    /\ pc = "stopped"

\* C4: for save to file, the delivery is acknowledged only when the complete
\* rendering (PROPERTIES, HEADERS and PAYLOAD sections) has been written and
\* the file closed; a failure of any write aborts the run instead.
C4_AckOnlyAfterCompleteFile ==
    (Chosen = actionSaveToFile /\ acks # <<>> /\ acks[1].ok) =>
        /\ fopen = <<>>
        /\ filename(del) \in DOMAIN files
        /\ files[filename(del)] = printDelivery(del, AllWritesOk).out

\* a header is present with a non-empty string value
HeaderSet(key) ==
    /\ key \in DOMAIN del.Headers
    /\ del.Headers[key].t = "string"
    /\ del.Headers[key].s # ""

\* an option with this label text is shown
Offered(text) == \E i \in DOMAIN options : options[i].text = text

\* the options have been computed for del
OptionsBuilt == pc \in ProcessPcs \ {"process"}

\* C5: republish to queue is offered iff x-first-death-queue is non-empty,
\* republish to exchange iff x-first-death-exchange is non-empty, save to
\* file iff the message id is non-empty; discard is always offered, last.
C5_OptionsOffered ==
    OptionsBuilt =>
        /\ Offered("republish to queue") <=> HeaderSet(KeyQueue)
        /\ Offered("republish to exchange") <=> HeaderSet(KeyExchange)
        /\ Offered("save to file") <=> del.MessageId # ""
        /\ options # <<>>
        /\ options[Len(options)].text = "discard"
        /\ actions[Len(actions)] = actionDiscard

C5_Witness ==
    /\ OptionsBuilt
    /\ HeaderSet(KeyQueue)
    /\ KeyExchange \in DOMAIN del.Headers /\ ~HeaderSet(KeyExchange)
    /\ del.MessageId = ""
    /\ Len(options) = 2

\* the label text that belongs to an action code
LabelText(code) ==
    IF code = actionRepublishQueue THEN "republish to queue"
    ELSE IF code = actionRepublishExchange THEN "republish to exchange"
    ELSE IF code = actionSaveToFile THEN "save to file"
    ELSE "discard"

\* C6: labels and action codes have the same length and correspond position
\* by position, no disposition occurs twice, the order is queue, exchange,
\* file, discard, and what is executed is the disposition whose label was
\* shown at the selected index.
C6_IndexAligned ==
    OptionsBuilt =>
        /\ Len(options) = Len(actions)
        /\ \A i \in DOMAIN actions : options[i].text = LabelText(actions[i])
        /\ \A i, j \in DOMAIN actions : i < j => actions[i] < actions[j]
        /\ \A i, j \in DOMAIN options : i < j => options[i].text # options[j].text
        /\ answer >= 0 =>
              LET shown == options[answer + 1].text
              IN /\ pc = "publishQueue" => shown = "republish to queue"
                 /\ pc = "publishExchange" => shown = "republish to exchange"
                 /\ pc \in {"create", "print", "close"} => shown = "save to file"
                 /\ pub # <<>> => /\ shown \in {"republish to queue", "republish to exchange"}
                                  /\ (shown = "republish to queue") = (pub[1].exchange = "")
                 /\ writes # <<>> => shown = "save to file"
                 /\ (acks # <<>> /\ pub = <<>> /\ writes = <<>>) => shown = "discard"

C6_Witness ==
    /\ Len(options) = 4
    /\ answer = 1
    /\ pub # <<>>

PublishingFields ==
    { "Headers", "ContentType", "ContentEncoding", "DeliveryMode", "Priority",
      "CorrelationId", "ReplyTo", "Expiration", "MessageId", "Timestamp", "Type",
      "UserId", "AppId", "Body" }

\* C7: the copy handed to Publish has exactly the fourteen fields of the
\* fetched delivery, each with the delivery's value.
C7_CopyVerbatim ==
    \A i \in DOMAIN pub :
        /\ DOMAIN pub[i].msg = PublishingFields
        /\ \A f \in PublishingFields : pub[i].msg[f] = del[f]

C7_Witness ==
    /\ Len(pub) = 1 /\ pub[1].ok
    /\ ~del.Timestamp.zero
    /\ del.Headers # EmptyTable

\* C8: republish to queue publishes to the default exchange with routing key
\* the value of x-first-death-queue; republish to exchange publishes to the
\* exchange named by x-first-death-exchange with the delivery's own routing
\* key, never a death-tracking value.
C8_PublishTarget ==
    \A i \in DOMAIN pub :
        /\ Chosen = actionRepublishQueue =>
              /\ pub[i].exchange = ""
              /\ HeaderSet(KeyQueue)
              /\ pub[i].key = del.Headers[KeyQueue].s
        /\ Chosen = actionRepublishExchange =>
              /\ HeaderSet(KeyExchange)
              /\ pub[i].exchange = del.Headers[KeyExchange].s
              /\ pub[i].key = del.RoutingKey
              /\ pub[i].key \notin {getHeader(del.Headers, KeyQueue), getHeader(del.Headers, KeyExchange)}

C8_Witness ==
    /\ Chosen = actionRepublishExchange
    /\ HeaderSet(KeyQueue)
    /\ Len(pub) = 1

\* C9: when an iteration begins with the context cancelled, the loop stops
\* with a successful result without a fetch, prompt, publish, file operation
\* or acknowledgement, and nothing happens once it has stopped.
C9_CancelStops ==
    [][ /\ (pc = "select" /\ cancelled) =>
              /\ pc' = "stopped" /\ result' = "ok"
              /\ UNCHANGED <<broker, del, offer, answer, effects>>
        /\ pc = "stopped" => UNCHANGED vars ]_vars

C9_Witness ==
    /\ pc = "stopped" /\ result = "ok"
    /\ cancelled
    /\ qlen > 0
    /\ gets = 1

\* C10: a cancellation that arrives after a message was fetched does not
\* interrupt its handling: inside process every step goes on to the next
\* step of the disposition, to the top of the loop after a successful
\* acknowledgement, or to a failure; the run stops successfully only at the
\* top of an iteration or at a fetch.
C10_NoMidActionCancel ==
    [][ /\ (cancelled /\ pc \in ProcessPcs) =>
              \/ pc' \in ProcessPcs
              \/ pc' = "select" /\ Len(acks') = 1 /\ acks'[1].ok /\ unacked' = {}
              \/ pc' = "stopped" /\ result' \notin {"", "ok"}
        /\ (pc' = "stopped" /\ result' = "ok" /\ pc # "stopped") =>
              \/ pc = "select" /\ cancelled
              \/ pc = "get" /\ qlen = 0 ]_vars

C10_Witness ==
    /\ cancelled
    /\ pc = "select"
    /\ Len(acks) = 1 /\ acks[1].ok
    /\ pub # <<>>

\* C11: when a fetch returns no message the loop stops with a successful
\* result (exit status 0), without a prompt, publish, file operation or
\* acknowledgement at that fetch or after it.
C11_EmptyFetchStops ==
    [][ /\ (pc = "get" /\ gets' = gets + 1 /\ fetched' = fetched /\ result' # "get") =>
              /\ pc' = "stopped" /\ result' = "ok"
              /\ ExitStatus(result') = 0
              /\ UNCHANGED <<qlen, unacked, del, offer, answer, effects>>
        /\ (pc = "stopped" /\ result = "ok") =>
              UNCHANGED <<pc, result, gets, prompts, pub, files, writes, acks>> ]_vars

C11_Witness ==
    /\ pc = "stopped" /\ result = "ok"
    /\ ~cancelled
    /\ qlen = 0
    /\ gets = fetched + 1
    /\ prompts = 0

\* C12: when discard is selected nothing is published and no file is created
\* or written; the delivery is acknowledged, and after a successful
\* acknowledgement the loop is at the top of its next iteration.
C12_DiscardOnlyAcks ==
    [][ /\ Chosen' = actionDiscard =>
              /\ pub' = <<>> /\ writes' = <<>> /\ fopen' = <<>>
              /\ pc' = "ack" \/ Len(acks') = 1
        /\ (Chosen = actionDiscard /\ pc = "ack" /\ pc' # "ack") =>
              /\ Len(acks') = 1
              /\ acks'[1].tag = del.DeliveryTag
              /\ acks'[1].ok => pc' = "select" /\ unacked' = {}
              /\ UNCHANGED <<pub, files, writes, fopen>> ]_vars

C12_Witness ==
    /\ Chosen = actionDiscard
    /\ del.MessageId # ""
    /\ pc = "get"
    /\ Len(acks) = 1 /\ acks[1].ok

\* the arguments are exactly a non-empty url and a non-empty queue name
ValidArgs == Len(args) = 3 /\ args[2] # "" /\ args[3] # ""

\* the errors run can return
FatalResults ==
    { errUsage, "dial", "channel", "get", "prompt", "publish", errMissingId,
      "create", "write", "close", "ack" }

\* a write into the file of del failed: printDelivery has run on it and the
\* file does not hold the complete rendering
FileWriteFailed ==
    /\ Chosen = actionSaveToFile
    /\ \E i \in DOMAIN writes : writes[i] = "print"
    /\ files[filename(del)] # printDelivery(del, AllWritesOk).out

\* a failure of the usage, publish, file or acknowledgement kind is on record
FailureSeen ==
    \/ ~ValidArgs
    \/ \E i \in DOMAIN pub : ~pub[i].ok
    \/ \E i \in DOMAIN acks : ~acks[i].ok
    \/ FileWriteFailed

\* C13: the run ends with a non-zero exit status if and only if a fatal
\* failure (usage, connection, channel, fetch, prompt, publish, file or
\* acknowledgement) occurred; a drained queue or a requested stop ends it
\* with status zero.
C13_ExitStatus ==
    pc = "stopped" =>
        /\ ExitStatus(result) # 0 => result \in FatalResults
        /\ ExitStatus(result) = 0 =>
              /\ ~FailureSeen
              /\ cancelled \/ qlen = 0

\* C14: with a finite queue to which nothing is added, and an operator who
\* answers every prompt, the loop eventually stops; the messages fetched and
\* the messages left always add up to the initial number, and a run that
\* stops without failure or cancellation has dispositioned all of them.
C14_Terminates ==
    /\ <>(pc = "stopped")
    /\ [][fetched' + qlen' = fetched + qlen]_vars
    /\ [](pc = "stopped" =>
            /\ result = "ok" \/ result \in FatalResults
            /\ (result = "ok" /\ ~cancelled) =>
                  /\ qlen = 0
                  /\ gets = fetched + 1
                  /\ unacked = {}
                  /\ fetched > 0 => Dispositioned)

C14_Witness ==
    /\ pc = "stopped" /\ result = "ok"
    /\ ~cancelled
    /\ fetched = 2
    /\ qlen = 0

\* C15: unless the arguments are exactly a non-empty url and a non-empty
\* queue name, the run fails with the usage error before any broker
\* interaction: no dial, channel, fetch, publish or acknowledgement.
C15_UsageBeforeBroker ==
    ~ValidArgs =>
        /\ pc \in {"run", "stopped"}
        /\ pc = "stopped" => result = errUsage /\ ExitStatus(result) = 1
        /\ gets = 0 /\ fetched = 0 /\ unacked = {}
        /\ pub = <<>> /\ acks = <<>>

C15_Witness ==
    /\ pc = "stopped" /\ result = errUsage
    /\ Len(args) = 3 /\ args[2] # "" /\ args[3] = ""

\* the write outcomes in which the three section titles are written
TitleWritesOk == { w \in WriteOutcomes : w[1] /\ w[3] /\ w[5] }

\* the last element of a non-empty sequence
Last(seq) == seq[Len(seq)]

\* del is declared application/json and its body is not valid JSON
Malformed == fetched > 0 /\ del.ContentType = "application/json" /\ del.Body = "{bad"

\* a rendering holds no payload content: the PAYLOAD title, where it was
\* written, is the last thing written
NoPayloadContent(out) ==
    \A i \in DOMAIN out : out[i] = Line("PAYLOAD") => i = Len(out)

\* C16: a delivery declared application/json whose body is not valid JSON
\* never makes the run fail: on screen and in the saved file nothing follows
\* the PAYLOAD title and nothing of the body is written, whenever the writes
\* of the titles succeed the rendering ends with that title without an error,
\* and the selected disposition is executed and acknowledged.
C16_MalformedJsonAbsorbed ==
    Malformed =>
        /\ NoPayloadContent(screen)
        /\ \A i \in DOMAIN screen : screen[i].name \notin {del.Body, "null\n"}
        /\ pc = "print" =>
              \A w \in TitleWritesOk :
                  LET r == printDelivery(del, w)
                  IN r.err = "" /\ Last(r.out) = Line("PAYLOAD")
        /\ result \in {"", "ok"} \cup FatalResults
        /\ (Chosen = actionSaveToFile /\ pc \in {"close", "ack"}) =>
              Last(files[filename(del)]) = Line("PAYLOAD")
        /\ (result = "write" /\ files[filename(del)] # <<>>) =>
              Last(files[filename(del)]) # Line("PAYLOAD")
        /\ Dispositioned => Len(acks) = 1 /\ acks[1].ok /\ unacked = {}

C16_Witness ==
    /\ Malformed
    /\ Chosen = actionSaveToFile
    /\ Dispositioned
    /\ screen # <<>> /\ Last(screen) = Line("PAYLOAD")
    /\ Last(files[filename(del)]) = Line("PAYLOAD")

\* C17: the save to file case is only ever executed for a delivery with a
\* non-empty message id, so the missing identifier failure never occurs.
C17_NoMissingIdentifier ==
    /\ result # errMissingId
    /\ (pc \in {"create", "print", "close"} \/ Chosen = actionSaveToFile \/ writes # <<>>) =>
          del.MessageId # ""

C17_Witness ==
    /\ pc = "print"
    /\ writes = <<"create">>
    /\ del.MessageId = "m1"

\* process has returned nil for del after the save to file case
Saved == Chosen = actionSaveToFile /\ Dispositioned

\* C18: save to file writes dead-letter-<message id>.txt and replaces what
\* the file held: after a successful save the file holds what this save
\* wrote of the rendering of this delivery, and nothing of an earlier save
\* under the same message id, in this run or an earlier one.
C18_FileReplaced ==
    Saved =>
        /\ filename(del) = <<"dead-letter-", del.MessageId, ".txt">>
        /\ filename(del) \in DOMAIN files
        /\ replaced \in {"absent", "earlier run", "PROPERTIES"}
        /\ \E w \in TitleWritesOk :
              LET r == printDelivery(del, w)
              IN r.err = "" /\ files[filename(del)] = r.out
        /\ \A i \in DOMAIN files[filename(del)] :
              /\ files[filename(del)][i] # Line("earlier run")
              /\ i > 1 => files[filename(del)][i] # Line("PROPERTIES")

C18_Witness ==
    /\ Saved
    /\ fetched = 2
    /\ replaced = "PROPERTIES"
    /\ files[filename(del)] = printDelivery(del, AllWritesOk).out

\* AskOne has returned for del without storing a selection
PromptFailed == prompts > 0 /\ answer = -1 /\ pc # "ask"

\* C19: when the prompt returns a failure the run stops with a fatal error;
\* for the delivery in process nothing is published, no file is created and
\* no acknowledgement is issued, so it stays unacknowledged on the broker.
C19_PromptFailureFatal ==
    /\ prompts <= 1
    /\ PromptFailed =>
          /\ pc = "stopped"
          /\ result = "prompt"
          /\ ExitStatus(result) # 0
          /\ pub = <<>> /\ writes = <<>> /\ fopen = <<>> /\ replaced = ""
          /\ acks = <<>>
          /\ unacked = {del.DeliveryTag}

C19_Witness ==
    /\ PromptFailed
    /\ fetched = 2
    /\ Len(options) = 4

\* C20: a run that ends successfully has acknowledged every delivery it
\* fetched; a fetched and unacknowledged delivery is left only by a run that
\* ended with a fatal error, and then it is exactly one, the last fetched.
C20_UnackedOnlyOnError ==
    pc = "stopped" =>
        /\ result = "ok" => unacked = {}
        /\ unacked # {} =>
              /\ result \in FatalResults
              /\ unacked = {fetched}
              /\ del.DeliveryTag = fetched

C20_Witness ==
    /\ pc = "stopped" /\ result = "ok"
    /\ cancelled
    /\ fetched = 2
    /\ unacked = {}

====
